---- MODULE Spec2Model ----
(***************************************************************************)
(* Model of demo/int8_resnet50_demo_throughput.py: the three benchmark     *)
(* drivers (run_within_arenas, run_with_async_runner, run_like_mlperf),    *)
(* their worker routines (arena_wrp, async_runner_routine, mlperf_routine) *)
(* and the append of the returned pair made by main.                       *)
(*                                                                         *)
(* One behaviour is one call of one driver.  Wall-clock values are not     *)
(* modelled: a sleep or a time comparison is a step that may be taken at   *)
(* any moment, and a timestamp is recorded as "taken".  A call into the    *)
(* workload (init_f, action_f, runner.infer, get_img, ...) either returns  *)
(* or raises.                                                              *)
(***************************************************************************)
EXTENDS Integers, Sequences, FiniteSets, TLC

\* Bounds of the model.
MaxArenaNum == 2
MaxCalls == 2
MaxTickets == 5
MaxCores == 4
MaxArenaSize == 3

\* Queue(maxsize=arena_num * 4)
QueueFactor == 4

VARIABLES
    variant,        \* which driver main calls: "arenas", "async", "mlperf"
    arena_num,      \* number of workers of the run
    drv_pc,         \* position of the driver
    drv_err,        \* exception that ended the driver, or "none"
    spawned,        \* idx of the spawn loop: workers started so far
    joined,         \* workers joined so far by the join loop
    ret,            \* value returned by the driver
    results,        \* the *_mod_res list of main
    still_running,  \* the stop flag (1: running, 0: stopped)
    barrier_count,  \* participants that have called init_barrier.wait()
    tasks,          \* the tasks queue of run_like_mlperf
    tickets_put,    \* tickets the driver has enqueued
    nones_put,      \* sentinels the driver has enqueued
    pc,             \* position of each worker
    timing,         \* whether the worker has taken start_timestamp
    tot_count,      \* the worker's local counter
    res_count,      \* shared result slots: counts
    res_time,       \* shared result slots: durations (written or not)
    late_calls,     \* history: calls the worker started after the flag was cleared
    got_tickets,    \* history: tickets the worker dequeued
    got_none,       \* history: sentinels the worker dequeued
    late_ticket,    \* history: a ticket was dequeued after some sentinel was
    total_cores,    \* multiprocessing.cpu_count()
    arena_size,     \* the arena_size argument of the driver
    arena_num_arg,  \* the arena_num argument of the driver (given or None)
    omp,            \* per worker process: the OMP_* environment it has set
    thread_inits,   \* history: initialize_for_thread calls made by the worker thread
    slot_writes,    \* history: times the worker wrote its result slots
    completed       \* history: workload calls of the worker that returned

cfgVars == <<variant, arena_num, total_cores, arena_size, arena_num_arg>>
drvVars == <<drv_pc, drv_err, spawned, joined, ret, results>>
syncVars == <<still_running, barrier_count>>
queueVars == <<tasks, tickets_put, nones_put>>
slotVars == <<res_count, res_time>>
histVars == <<late_calls, got_tickets, got_none, late_ticket>>
auxVars == <<omp, thread_inits, slot_writes, completed>>
vars == <<variant, arena_num, drv_pc, drv_err, spawned, joined, ret, results,
          still_running, barrier_count, tasks, tickets_put, nones_put,
          pc, timing, tot_count, res_count, res_time,
          late_calls, got_tickets, got_none, late_ticket,
          total_cores, arena_size, arena_num_arg,
          omp, thread_inits, slot_writes, completed>>

Workers == 0..(arena_num - 1)

\* Every index a worker of some run can have.
WorkerIds == 0..(MaxArenaNum - 1)

Ticket == "1"
Sentinel == "None"
NoValue == [kind |-> "none"]

\* The arena_num argument: a number, or None (the default).
Given(n) == [given |-> TRUE, value |-> n]
NoneArg == [given |-> FALSE]

\* The OMP_* variables of a process that has not set them.
Unset == [bound |-> FALSE]

RECURSIVE SumTo(_, _)
SumTo(f, n) == IF n = 0 THEN 0 ELSE f[n - 1] + SumTo(f, n - 1)

Init ==
    /\ variant \in {"arenas", "async", "mlperf"}
    /\ arena_num \in 1..MaxArenaNum
    /\ drv_pc = "spawn"
    /\ drv_err = "none"
    /\ spawned = 0
    /\ joined = 0
    /\ ret = NoValue
    /\ results = <<>>
    /\ still_running = 1
    /\ barrier_count = 0
    /\ tasks = <<>>
    /\ tickets_put = 0
    /\ nones_put = 0
    /\ pc = [i \in 0..(arena_num - 1) |-> "unborn"]
    /\ timing = [i \in 0..(arena_num - 1) |-> FALSE]
    /\ tot_count = [i \in 0..(arena_num - 1) |-> 0]
    /\ res_count = [i \in 0..(arena_num - 1) |-> 0]
    /\ res_time = [i \in 0..(arena_num - 1) |-> FALSE]
    /\ late_calls = [i \in 0..(arena_num - 1) |-> 0]
    /\ got_tickets = [i \in 0..(arena_num - 1) |-> 0]
    /\ got_none = [i \in 0..(arena_num - 1) |-> 0]
    /\ late_ticket = FALSE
    /\ total_cores = MaxArenaNum
    /\ arena_size = 1
    /\ arena_num_arg = Given(arena_num)
    /\ omp = [i \in 0..(arena_num - 1) |-> Unset]
    /\ thread_inits = [i \in 0..(arena_num - 1) |-> 0]
    /\ slot_writes = [i \in 0..(arena_num - 1) |-> 0]
    /\ completed = [i \in 0..(arena_num - 1) |-> 0]

\* Worker i belongs to the run of driver v.
InRun(i, v) == variant = v /\ i \in Workers

Goto(i, l) == pc' = [pc EXCEPT ![i] = l]

Terminated(i) == pc[i] \in {"done", "raised"}

(***************************************************************************)
(* Steps shared by the worker routines (the three routines repeat them).   *)
(***************************************************************************)

\* A step of worker i that only moves it from position `from` to `to`.
Move(i, from, to) ==
    /\ pc[i] = from
    /\ Goto(i, to)
    /\ UNCHANGED <<cfgVars, auxVars, drvVars, syncVars, queueVars, slotVars, histVars,
                   timing, tot_count>>

\* tot_count = 0; start_timestamp = time.time()
TakeStart(i, to) ==
    /\ pc[i] = "start"
    /\ Goto(i, to)
    /\ timing' = [timing EXCEPT ![i] = TRUE]
    /\ tot_count' = [tot_count EXCEPT ![i] = 0]
    /\ UNCHANGED <<cfgVars, auxVars, drvVars, syncVars, queueVars, slotVars, histVars>>

\* Variant of LoopCheck: the loop condition never reads the cleared flag.
LoopCheckIgnoresStop(i) ==
    /\ pc[i] = "check"
    /\ tot_count[i] < MaxCalls
    /\ Goto(i, "body")
    /\ UNCHANGED <<cfgVars, auxVars, drvVars, syncVars, queueVars, slotVars, histVars,
                   timing, tot_count>>

\* while still_running == 1: one evaluation of the loop condition.
LoopCheck(i) ==
    /\ pc[i] = "check"
    /\ IF still_running = 1
          THEN tot_count[i] < MaxCalls /\ Goto(i, "body")
          ELSE Goto(i, "write")
    /\ UNCHANGED <<cfgVars, auxVars, drvVars, syncVars, queueVars, slotVars, histVars,
                   timing, tot_count>>

\* tot_count += 1, then the call of the workload begins.
CallStart(i) ==
    /\ pc[i] = "body"
    /\ Goto(i, "call")
    /\ tot_count' = [tot_count EXCEPT ![i] = @ + 1]
    /\ late_calls' = [late_calls EXCEPT ![i] = IF still_running = 0 THEN @ + 1 ELSE @]
    /\ UNCHANGED <<cfgVars, auxVars, drvVars, syncVars, queueVars, slotVars, timing,
                   got_tickets, got_none, late_ticket>>

\* The call of the workload returns; the loop goes back to its condition.
CallReturn(i) ==
    /\ pc[i] = "call"
    /\ Goto(i, "check")
    /\ completed' = [completed EXCEPT ![i] = @ + 1]
    /\ UNCHANGED <<cfgVars, drvVars, syncVars, queueVars, slotVars, histVars,
                   timing, tot_count, omp, thread_inits, slot_writes>>

\* tot_duration = time.time() - start_timestamp; the two result slots are written.
WriteSlots(i) ==
    /\ pc[i] = "write"
    /\ Goto(i, "done")
    /\ res_count' = [res_count EXCEPT ![i] = tot_count[i]]
    /\ res_time' = [res_time EXCEPT ![i] = TRUE]
    /\ slot_writes' = [slot_writes EXCEPT ![i] = @ + 1]
    /\ UNCHANGED <<cfgVars, drvVars, syncVars, queueVars, histVars, timing, tot_count,
                   omp, thread_inits, completed>>

(***************************************************************************)
(* arena_wrp: the worker process of run_within_arenas.                     *)
(***************************************************************************)

\* Variant of Parties: a barrier sized for the workers alone.
PartiesWithoutDriver == arena_num

\* multiprocessing.Barrier(arena_num + 1)
Parties == arena_num + 1

BarrierOpen == barrier_count = Parties

\* idx_start = arena_size * arena_idx
IdxStart(i) == arena_size * i

\* min(a, b)
Min(a, b) == IF a < b THEN a ELSE b

\* arena_size = min(multiprocessing.cpu_count() - idx_start, arena_size)
ClampedSize(i) == Min(total_cores - IdxStart(i), arena_size)

\* idx_end = idx_start + arena_size
IdxEnd(i) == IdxStart(i) + ClampedSize(i)

\* The OMP_* variables arena_wrp sets: OMP_NUM_THREADS, the cores listed in
\* OMP_PLACES (range(idx_start, idx_end)), OMP_PROC_BIND.
Affinity(i) ==
    [bound |-> TRUE,
     num_threads |-> ClampedSize(i),
     places |-> {k \in IdxStart(i)..(IdxEnd(i) - 1) : TRUE},
     proc_bind |-> "true"]

\* Variant of WrpAffinity: the worker goes on to init_f without setting OMP_*.
WrpAffinitySkipped(i) == InRun(i, "arenas") /\ Move(i, "affinity", "init_f")

\* idx_start .. os.environ['OMP_PROC_BIND'] = "true"
WrpAffinity(i) ==
    /\ InRun(i, "arenas")
    /\ pc[i] = "affinity"
    /\ Goto(i, "init_f")
    /\ omp' = [omp EXCEPT ![i] = Affinity(i)]
    /\ UNCHANGED <<cfgVars, drvVars, syncVars, queueVars, slotVars, histVars,
                   timing, tot_count, thread_inits, slot_writes, completed>>

\* init_f returns and the worker calls init_barrier.wait().
WrpInitReturn(i) ==
    /\ InRun(i, "arenas")
    /\ pc[i] = "init_f"
    /\ Goto(i, "wait")
    /\ barrier_count' = barrier_count + 1
    /\ UNCHANGED <<cfgVars, auxVars, drvVars, still_running, queueVars, slotVars, histVars,
                   timing, tot_count>>

\* init_f raises: the process ends with a non-zero exit code.
WrpInitRaise(i) == InRun(i, "arenas") /\ Move(i, "init_f", "raised")

\* init_barrier.wait() returns.
WrpBarrierPass(i) == InRun(i, "arenas") /\ BarrierOpen /\ Move(i, "wait", "start")

WrpStart(i) == InRun(i, "arenas") /\ TakeStart(i, "check")

WrpCheck(i) == InRun(i, "arenas") /\ LoopCheck(i)

WrpCallStart(i) == InRun(i, "arenas") /\ CallStart(i)

\* Variant of WrpCallReturn: the loop body repeats without re-reading the flag.
WrpCallReturnNoRecheck(i) == InRun(i, "arenas") /\ Move(i, "call", "body")

\* action_f returns.
WrpCallReturn(i) == InRun(i, "arenas") /\ CallReturn(i)

\* action_f raises.
WrpCallRaise(i) == InRun(i, "arenas") /\ Move(i, "call", "raised")

WrpWrite(i) == InRun(i, "arenas") /\ WriteSlots(i)

\* Process.exitcode of a process that has ended.
ExitCode(i) == IF pc[i] = "raised" THEN 1 ELSE 0

(***************************************************************************)
(* async_runner_routine: the worker thread of run_with_async_runner.       *)
(***************************************************************************)

\* Variant of AsyncInit: initialization without runner.initialize_for_thread().
AsyncInitNoBind(i, to) == Move(i, "init", to)

\* The thread calls runner.initialize_for_thread(), get_img, ndarray.array and
\* ends its initialization at position `to`.
AsyncInit(i, to) ==
    /\ pc[i] = "init"
    /\ Goto(i, to)
    /\ thread_inits' = [thread_inits EXCEPT ![i] = @ + 1]
    /\ UNCHANGED <<cfgVars, drvVars, syncVars, queueVars, slotVars, histVars,
                   timing, tot_count, omp, slot_writes, completed>>

\* runner.initialize_for_thread(), get_img, ndarray.array return.
AsyncInitReturn(i) == InRun(i, "async") /\ AsyncInit(i, "start")

\* One of them raises: the thread ends.
AsyncInitRaise(i) == InRun(i, "async") /\ AsyncInit(i, "raised")

AsyncStart(i) == InRun(i, "async") /\ TakeStart(i, "check")

AsyncCheck(i) == InRun(i, "async") /\ LoopCheck(i)

AsyncCallStart(i) == InRun(i, "async") /\ CallStart(i)

\* runner.infer returns.
AsyncCallReturn(i) == InRun(i, "async") /\ CallReturn(i)

\* runner.infer raises.
AsyncCallRaise(i) == InRun(i, "async") /\ Move(i, "call", "raised")

AsyncWrite(i) == InRun(i, "async") /\ WriteSlots(i)

(***************************************************************************)
(* mlperf_routine: the worker thread of run_like_mlperf.                   *)
(***************************************************************************)

\* get_img, ndarray.array return.
MlInitReturn(i) == InRun(i, "mlperf") /\ Move(i, "init", "start")

\* One of them raises: the thread ends.
MlInitRaise(i) == InRun(i, "mlperf") /\ Move(i, "init", "raised")

MlStart(i) == InRun(i, "mlperf") /\ TakeStart(i, "get")

\* qitem = tasks_queue.get(): blocks while the queue is empty.
MlGet(i) ==
    /\ InRun(i, "mlperf")
    /\ pc[i] = "get"
    /\ tasks # <<>>
    /\ tasks' = Tail(tasks)
    /\ IF Head(tasks) = Sentinel
          THEN /\ Goto(i, "write")
               /\ got_none' = [got_none EXCEPT ![i] = @ + 1]
               /\ UNCHANGED <<got_tickets, late_ticket>>
          ELSE /\ Goto(i, "infer")
               /\ got_tickets' = [got_tickets EXCEPT ![i] = @ + 1]
               /\ late_ticket' = (late_ticket \/ SumTo(got_none, arena_num) > 0)
               /\ UNCHANGED got_none
    /\ UNCHANGED <<cfgVars, auxVars, drvVars, syncVars, tickets_put, nones_put, slotVars,
                   late_calls, timing, tot_count>>

\* Variant of MlInferReturn: the call returns and tot_count is left as it was.
MlInferReturnUncounted(i) ==
    /\ InRun(i, "mlperf")
    /\ pc[i] = "infer"
    /\ Goto(i, "get")
    /\ completed' = [completed EXCEPT ![i] = @ + 1]
    /\ UNCHANGED <<cfgVars, drvVars, syncVars, queueVars, slotVars, histVars, timing,
                   tot_count, omp, thread_inits, slot_writes>>

\* runner.infer returns; tot_count += 1; task_done().
MlInferReturn(i) ==
    /\ InRun(i, "mlperf")
    /\ pc[i] = "infer"
    /\ Goto(i, "get")
    /\ tot_count' = [tot_count EXCEPT ![i] = @ + 1]
    /\ completed' = [completed EXCEPT ![i] = @ + 1]
    /\ UNCHANGED <<cfgVars, drvVars, syncVars, queueVars, slotVars, histVars, timing,
                   omp, thread_inits, slot_writes>>

\* runner.infer raises.
MlInferRaise(i) == InRun(i, "mlperf") /\ Move(i, "infer", "raised")

MlWrite(i) == InRun(i, "mlperf") /\ WriteSlots(i)

(***************************************************************************)
(* Steps shared by the drivers (the three drivers repeat them).            *)
(***************************************************************************)

\* One iteration of the spawn loop: worker `spawned` starts at position `first`;
\* after the last iteration the driver goes on to `after`.
Spawn(first, after) ==
    /\ drv_pc = "spawn"
    /\ spawned < arena_num
    /\ Goto(spawned, first)
    /\ spawned' = spawned + 1
    /\ drv_pc' = IF spawned + 1 = arena_num THEN after ELSE "spawn"
    /\ UNCHANGED <<cfgVars, auxVars, drv_err, joined, ret, results, syncVars, queueVars,
                   slotVars, histVars, timing, tot_count>>

\* Variant of StopWorkers: the driver goes on to join without clearing the flag.
StopWorkersNoWrite ==
    /\ drv_pc = "sleep"
    /\ drv_pc' = "join"
    /\ UNCHANGED <<cfgVars, auxVars, drv_err, spawned, joined, ret, results, syncVars,
                   queueVars, pc, timing, tot_count, slotVars, histVars>>

\* time.sleep(benchmark_time_sec); still_running = 0
StopWorkers ==
    /\ drv_pc = "sleep"
    /\ still_running' = 0
    /\ drv_pc' = "join"
    /\ UNCHANGED <<cfgVars, auxVars, drv_err, spawned, joined, ret, results, barrier_count,
                   queueVars, pc, timing, tot_count, slotVars, histVars>>

\* Variant of ThreadJoin: join returns without waiting for the thread to end.
ThreadJoinNoWait ==
    /\ drv_pc = "join"
    /\ joined < arena_num
    /\ joined' = joined + 1
    /\ drv_pc' = IF joined + 1 = arena_num THEN "aggregate" ELSE "join"
    /\ UNCHANGED <<cfgVars, auxVars, drv_err, spawned, ret, results, syncVars, queueVars,
                   pc, timing, tot_count, slotVars, histVars>>

\* worker.join() of a thread: returns once the thread has ended, however it ended.
ThreadJoin ==
    /\ drv_pc = "join"
    /\ joined < arena_num
    /\ Terminated(joined)
    /\ joined' = joined + 1
    /\ drv_pc' = IF joined + 1 = arena_num THEN "aggregate" ELSE "join"
    /\ UNCHANGED <<cfgVars, auxVars, drv_err, spawned, ret, results, syncVars, queueVars,
                   pc, timing, tot_count, slotVars, histVars>>

\* total_count of the aggregation loop.
TotalCount == SumTo(res_count, arena_num)

\* Variant of Aggregate: a zero total is reported as a value instead of raising.
AggregateZeroAsValue ==
    /\ drv_pc = "aggregate"
    /\ drv_pc' = "returned"
    /\ ret' = [kind |-> "pair", total_count |-> TotalCount]
    /\ UNCHANGED <<cfgVars, auxVars, drv_err, spawned, joined, results, syncVars, queueVars,
                   pc, timing, tot_count, slotVars, histVars>>

\* total_duration /= total_count raises ZeroDivisionError when total_count is 0;
\* otherwise (latency, throughput) is returned. The pair is kept as its divisor.
Aggregate ==
    /\ drv_pc = "aggregate"
    /\ IF TotalCount = 0
          THEN /\ drv_pc' = "error"
               /\ drv_err' = "ZeroDivisionError"
               /\ UNCHANGED ret
          ELSE /\ drv_pc' = "returned"
               /\ ret' = [kind |-> "pair", total_count |-> TotalCount]
               /\ UNCHANGED drv_err
    /\ UNCHANGED <<cfgVars, auxVars, spawned, joined, results, syncVars, queueVars,
                   pc, timing, tot_count, slotVars, histVars>>

(***************************************************************************)
(* run_within_arenas                                                       *)
(***************************************************************************)

ArenasSpawn == variant = "arenas" /\ Spawn("affinity", "arrive")

\* The driver calls init_barrier.wait().
ArenasBarrierWait ==
    /\ variant = "arenas"
    /\ drv_pc = "arrive"
    /\ barrier_count' = barrier_count + 1
    /\ drv_pc' = "wait"
    /\ UNCHANGED <<cfgVars, auxVars, drv_err, spawned, joined, ret, results, still_running,
                   queueVars, pc, timing, tot_count, slotVars, histVars>>

\* init_barrier.wait() returns in the driver.
ArenasBarrierPass ==
    /\ variant = "arenas"
    /\ drv_pc = "wait"
    /\ BarrierOpen
    /\ drv_pc' = "sleep"
    /\ UNCHANGED <<cfgVars, auxVars, drv_err, spawned, joined, ret, results, syncVars,
                   queueVars, pc, timing, tot_count, slotVars, histVars>>

ArenasStop == variant = "arenas" /\ StopWorkers

\* Variant of ArenasJoin: the exit code is not asserted.
ArenasJoinUnchecked == variant = "arenas" /\ ThreadJoin

\* p.join(); assert p.exitcode == 0; p.terminate()
ArenasJoin ==
    /\ variant = "arenas"
    /\ drv_pc = "join"
    /\ joined < arena_num
    /\ Terminated(joined)
    /\ IF ExitCode(joined) = 0
          THEN /\ joined' = joined + 1
               /\ drv_pc' = IF joined + 1 = arena_num THEN "aggregate" ELSE "join"
               /\ UNCHANGED drv_err
          ELSE /\ drv_pc' = "error"
               /\ drv_err' = "AssertionError"
               /\ UNCHANGED joined
    /\ UNCHANGED <<cfgVars, auxVars, spawned, ret, results, syncVars, queueVars,
                   pc, timing, tot_count, slotVars, histVars>>

ArenasAggregate == variant = "arenas" /\ Aggregate

(***************************************************************************)
(* run_with_async_runner                                                   *)
(***************************************************************************)

AsyncSpawn == variant = "async" /\ Spawn("init", "sleep")

AsyncStop == variant = "async" /\ StopWorkers

AsyncJoin == variant = "async" /\ ThreadJoin

AsyncAggregate == variant = "async" /\ Aggregate

(***************************************************************************)
(* run_like_mlperf                                                         *)
(***************************************************************************)

\* Queue(maxsize=arena_num * 4)
MaxSize == arena_num * QueueFactor

\* Variant of CanPut: put never blocks.
CanPutUnbounded == TRUE

\* put blocks while the queue is full.
CanPut == Len(tasks) < MaxSize

\* The last spawn iteration is followed by start_time = time.time().
MlSpawn == variant = "mlperf" /\ Spawn("init", "produce")

\* while time.time() - start_time < benchmark_time_sec: one evaluation.
MlWindowCheck ==
    /\ variant = "mlperf"
    /\ drv_pc = "produce"
    /\ \/ tickets_put < MaxTickets /\ drv_pc' = "put"
       \/ drv_pc' = "sentinels"
    /\ UNCHANGED <<cfgVars, auxVars, drv_err, spawned, joined, ret, results, syncVars,
                   queueVars, pc, timing, tot_count, slotVars, histVars>>

\* tasks.put(1)
MlPutTicket ==
    /\ variant = "mlperf"
    /\ drv_pc = "put"
    /\ CanPut
    /\ tasks' = Append(tasks, Ticket)
    /\ tickets_put' = tickets_put + 1
    /\ drv_pc' = "produce"
    /\ UNCHANGED <<cfgVars, auxVars, drv_err, spawned, joined, ret, results, syncVars,
                   nones_put, pc, timing, tot_count, slotVars, histVars>>

\* Sentinels the driver enqueues: for _ in range(arena_num).
SentinelCount == arena_num

\* tasks.put(None), one iteration.
MlPutNone ==
    /\ variant = "mlperf"
    /\ drv_pc = "sentinels"
    /\ IF nones_put < SentinelCount
          THEN /\ CanPut
               /\ tasks' = Append(tasks, Sentinel)
               /\ nones_put' = nones_put + 1
               /\ UNCHANGED drv_pc
          ELSE /\ drv_pc' = "join"
               /\ UNCHANGED <<tasks, nones_put>>
    /\ UNCHANGED <<cfgVars, auxVars, drv_err, spawned, joined, ret, results, syncVars,
                   tickets_put, pc, timing, tot_count, slotVars, histVars>>

MlJoin == variant = "mlperf" /\ ThreadJoin

MlAggregate == variant = "mlperf" /\ Aggregate

(***************************************************************************)
(* main: res = run_...(...); ..._mod_res.append((arena_num, res))          *)
(***************************************************************************)

MainAppend ==
    /\ drv_pc = "returned"
    /\ results' = Append(results, <<arena_num, ret>>)
    /\ drv_pc' = "appended"
    /\ UNCHANGED <<cfgVars, auxVars, drv_err, spawned, joined, ret, syncVars, queueVars,
                   pc, timing, tot_count, slotVars, histVars>>

ArenasWorker(i) ==
    \/ WrpAffinity(i) \/ WrpInitReturn(i) \/ WrpInitRaise(i) \/ WrpBarrierPass(i)
    \/ WrpStart(i) \/ WrpCheck(i) \/ WrpCallStart(i) \/ WrpCallReturn(i)
    \/ WrpCallRaise(i) \/ WrpWrite(i)

AsyncWorker(i) ==
    \/ AsyncInitReturn(i) \/ AsyncInitRaise(i) \/ AsyncStart(i) \/ AsyncCheck(i)
    \/ AsyncCallStart(i) \/ AsyncCallReturn(i) \/ AsyncCallRaise(i) \/ AsyncWrite(i)

MlWorker(i) ==
    \/ MlInitReturn(i) \/ MlInitRaise(i) \/ MlStart(i) \/ MlGet(i)
    \/ MlInferReturn(i) \/ MlInferRaise(i) \/ MlWrite(i)

ArenasDriver ==
    \/ ArenasSpawn \/ ArenasBarrierWait \/ ArenasBarrierPass \/ ArenasStop
    \/ ArenasJoin \/ ArenasAggregate

AsyncDriver == AsyncSpawn \/ AsyncStop \/ AsyncJoin \/ AsyncAggregate

MlDriver ==
    \/ MlSpawn \/ MlWindowCheck \/ MlPutTicket \/ MlPutNone \/ MlJoin \/ MlAggregate

Next ==
    \/ ArenasDriver
    \/ AsyncDriver
    \/ MlDriver
    \/ MainAppend
    \/ \E i \in WorkerIds : ArenasWorker(i)
    \/ \E i \in WorkerIds : AsyncWorker(i)
    \/ \E i \in WorkerIds : MlWorker(i)

Spec == Init /\ [][Next]_vars

\* The run has ended: the pair was appended by main, or the driver raised.
RunEnded == drv_pc \in {"appended", "error"}

TypeOK ==
    /\ variant \in {"arenas", "async", "mlperf"}
    /\ arena_num \in 1..MaxArenaNum
    /\ drv_pc \in {"spawn", "arrive", "wait", "sleep", "produce", "put", "sentinels",
                   "join", "aggregate", "returned", "appended", "error"}
    /\ drv_err \in {"none", "AssertionError", "ZeroDivisionError"}
    /\ spawned \in 0..arena_num
    /\ joined \in 0..arena_num
    /\ still_running \in {0, 1}
    /\ barrier_count \in 0..(arena_num + 1)
    /\ Len(tasks) <= MaxSize
    /\ \A i \in Workers :
          /\ pc[i] \in {"unborn", "affinity", "init_f", "wait", "init", "start",
                        "check", "body", "call", "get", "infer", "write", "done",
                        "raised"}
          /\ tot_count[i] \in 0..(IF MaxCalls > MaxTickets THEN MaxCalls ELSE MaxTickets)

(***************************************************************************)
(* Properties.                                                             *)
(***************************************************************************)

\* The worker has returned from init_barrier.wait() (arena_wrp).
PastBarrier(i) == pc[i] = "start" \/ timing[i]

\* The worker has finished init_f and called init_barrier.wait().
AtBarrier(i) == pc[i] = "wait" \/ PastBarrier(i)

DriverAtBarrier == drv_pc \notin {"spawn", "arrive"}

DriverPastBarrier == drv_pc \notin {"spawn", "arrive", "wait"}

\* The worker raised before its timed loop, or inside a call of it.
RaisedInInit(i) == pc[i] = "raised" /\ ~timing[i]

RaisedInCall(i) == pc[i] = "raised" /\ timing[i]

\* C1: in run_within_arenas no participant (worker or driver) is past
\* init_barrier.wait() unless all arena_num workers and the driver have called
\* it; so a worker that has taken its start timestamp or made an action_f call
\* implies every worker finished init_f and the driver reached the barrier.
C1_BarrierRendezvous ==
    variant = "arenas" =>
        /\ ((\E i \in Workers : PastBarrier(i)) \/ DriverPastBarrier)
              => (DriverAtBarrier /\ \A j \in Workers : AtBarrier(j))
        /\ \A i \in Workers :
              (timing[i] \/ tot_count[i] > 0)
                 => (DriverAtBarrier /\ \A j \in Workers : AtBarrier(j))

\* A worker of a run with two workers is inside an action_f call.
C1_Witness ==
    /\ variant = "arenas"
    /\ arena_num >= 2
    /\ \E i \in Workers : pc[i] = "call" /\ tot_count[i] = 1

\* The thread worker has finished its initialization.
ThreadInitDone(i) == pc[i] \notin {"unborn", "init"} /\ ~RaisedInInit(i)

\* The driver is past its spawn loop: the measurement window has begun.
WindowStarted == drv_pc # "spawn"

\* C2: in run_with_async_runner and run_like_mlperf no worker has taken its
\* start timestamp unless all workers of the run have finished initializing
\* and the driver has started the measurement window.
C2_ThreadRendezvous ==
    variant \in {"async", "mlperf"} =>
        \A i \in Workers :
            timing[i] => (WindowStarted /\ \A j \in Workers : ThreadInitDone(j))

\* C3: in run_within_arenas, once a worker has raised inside action_f the
\* driver never joins past it, never aggregates, returns no pair, and main
\* appends nothing; the join of that worker ends the driver with the failed
\* assertion.
C3_ArenasWorkerFailure ==
    (variant = "arenas" /\ \E i \in Workers : RaisedInCall(i)) =>
        /\ \A i \in Workers : RaisedInCall(i) => joined <= i
        /\ drv_pc \notin {"aggregate", "returned", "appended"}
        /\ drv_err \in {"none", "AssertionError"}
        /\ ret = NoValue
        /\ results = <<>>

\* A worker raised in a later action_f call (not its first) and the driver's
\* assertion failed.
C3_Witness ==
    /\ variant = "arenas"
    /\ \E i \in Workers : RaisedInCall(i) /\ tot_count[i] = MaxCalls
    /\ drv_pc = "error"
    /\ drv_err = "AssertionError"

\* C4: in the thread drivers, once a worker thread has raised (initializing
\* or inside runner.infer) the driver does not aggregate, returns no pair,
\* and main appends nothing.
C4_ThreadWorkerFailure ==
    (variant \in {"async", "mlperf"} /\ \E i \in Workers : pc[i] = "raised") =>
        /\ drv_pc \notin {"aggregate", "returned", "appended"}
        /\ ret = NoValue
        /\ results = <<>>

\* C5: in run_within_arenas, after a worker raised in init_f the run is never
\* stuck: it has ended, or some participant can still take a step.
C5_InitFailureNoDeadlock ==
    (variant = "arenas" /\ \E i \in Workers : RaisedInInit(i)) =>
        (RunEnded \/ ENABLED Next)

\* C6: in each driver, when all workers are joined and the counts sum to 0
\* the driver does not return: it is about to aggregate or has ended with
\* ZeroDivisionError; a returned or appended pair always has a non-zero count.
C6_ZeroCallsIsError ==
    /\ (joined = arena_num /\ TotalCount = 0) =>
          /\ drv_pc \in {"aggregate", "error"}
          /\ (drv_pc = "error" => drv_err = "ZeroDivisionError")
          /\ ret = NoValue
          /\ results = <<>>
    /\ ret # NoValue => ret.total_count > 0
    /\ \A k \in 1..Len(results) : results[k][2] # NoValue /\ results[k][2].total_count > 0

\* A run with two workers ended with ZeroDivisionError.
C6_Witness ==
    /\ arena_num >= 2
    /\ joined = arena_num
    /\ drv_pc = "error"
    /\ drv_err = "ZeroDivisionError"

\* C7: in run_like_mlperf, provided no runner.infer call raised: the driver
\* enqueues at most arena_num sentinels and none before the last ticket, each
\* worker dequeues at most one sentinel, and the run is never stuck (it has
\* ended or a participant can step).
C7_SentinelsNoDeadlock ==
    (variant = "mlperf" /\ \A i \in Workers : ~RaisedInCall(i)) =>
        /\ nones_put <= arena_num
        /\ (drv_pc \in {"join", "aggregate", "returned", "appended"} => nones_put = arena_num)
        /\ (nones_put > 0 => drv_pc \notin {"spawn", "produce", "put"})
        /\ \A i \in Workers : got_none[i] <= 1 /\ (pc[i] = "done" => got_none[i] = 1)
        /\ (RunEnded \/ ENABLED Next)

\* Tickets still in the queue.
QueuedTickets == Cardinality({k \in 1..Len(tasks) : tasks[k] = Ticket})

\* C8: in run_like_mlperf every enqueued ticket is in the queue or was
\* dequeued by one worker, no ticket is dequeued after a sentinel was, and
\* when the driver aggregates the tickets enqueued equal the sum of the
\* workers' counts.
C8_TicketsAccounted ==
    variant = "mlperf" =>
        /\ SumTo(got_tickets, arena_num) + QueuedTickets = tickets_put
        /\ ~late_ticket
        /\ (drv_pc \in {"aggregate", "returned", "appended"} => tickets_put = TotalCount)

\* C9: the tasks queue of run_like_mlperf never holds more than arena_num * 4
\* items.
C9_QueueBounded == variant = "mlperf" => Len(tasks) <= arena_num * 4

\* The queue is full and the driver is blocked in put.
C9_Witness ==
    /\ variant = "mlperf"
    /\ Len(tasks) = arena_num * 4
    /\ drv_pc = "put"

\* A step of a free-running worker: a call is left only by ending, and the code
\* after the loop is reached only from a check that read the cleared flag.
LoopLeftOnlyAtCheck ==
    variant \in {"arenas", "async"} =>
        \A i \in Workers :
            /\ ((pc[i] = "call" /\ pc'[i] # "call") => pc'[i] \in {"check", "raised"})
            /\ ((pc[i] # "write" /\ pc'[i] = "write")
                   => (pc[i] = "check" /\ still_running = 0))

\* C10: in arena_wrp and async_runner_routine a worker inside a call leaves it
\* only by the call ending, it reaches the code after the loop only from a
\* loop-condition check that read the cleared flag, and it starts at most one
\* call after the driver cleared the flag.
C10_StopBetweenCalls ==
    /\ [](variant \in {"arenas", "async"} => \A i \in Workers : late_calls[i] <= 1)
    /\ [][LoopLeftOnlyAtCheck]_vars

\* A worker ended normally having started one call after the flag was cleared.
C10_Witness ==
    /\ variant \in {"arenas", "async"}
    /\ \E i \in Workers : pc[i] = "done" /\ late_calls[i] = 1

(***************************************************************************)
(* Scheduling: the driver and every worker are separate processes or       *)
(* threads of a preemptive scheduler; each keeps running while it can step. *)
(***************************************************************************)

\* The runs of the two free-running drivers.
FreeInit == Init /\ variant \in {"arenas", "async"}

FreeDriverStep == ArenasDriver \/ AsyncDriver \/ MainAppend

FreeWorkerStep(i) == ArenasWorker(i) \/ AsyncWorker(i)

FreeNext == FreeDriverStep \/ \E i \in WorkerIds : FreeWorkerStep(i)

FreeFairness == WF_vars(FreeDriverStep) /\ \A i \in WorkerIds : WF_vars(FreeWorkerStep(i))

FreeRunFairSpec == FreeInit /\ [][FreeNext]_vars /\ FreeFairness

\* The driver has joined every worker and reached its aggregation loop.
ReachedAggregation == drv_pc \in {"aggregate", "returned", "appended", "error"} /\ joined = arena_num

\* C11: in run_within_arenas and run_with_async_runner, once the driver has
\* cleared the flag, and unless a call raises, every worker ends and the
\* driver joins them all and reaches aggregation; no worker starts more than
\* one call after the flag was cleared.
C11_StopLeadsToAggregation ==
    /\ [](variant \in {"arenas", "async"} => \A i \in Workers : late_calls[i] <= 1)
    /\ (variant \in {"arenas", "async"} /\ still_running = 0)
          ~> ((ReachedAggregation /\ \A i \in Workers : Terminated(i))
                 \/ \E i \in Workers : RaisedInCall(i))

\* The driver reached aggregation after clearing the flag while a worker was
\* about to start one more call.
C11_Witness ==
    /\ variant \in {"arenas", "async"}
    /\ arena_num >= 2
    /\ still_running = 0
    /\ drv_pc = "aggregate"
    /\ \E i \in Workers : late_calls[i] = 1 /\ res_count[i] >= 2
    /\ \A i \in Workers : pc[i] = "done"

\* A step that writes a result slot of worker i is the last step of worker i
\* itself: from the code after its loop to its end, the driver standing still.
SlotsWrittenByOwnerLast ==
    \A i \in Workers :
        (res_count'[i] # res_count[i] \/ res_time'[i] # res_time[i]
           \/ slot_writes'[i] # slot_writes[i])
        => /\ pc[i] = "write" /\ pc'[i] = "done"
           /\ slot_writes'[i] = slot_writes[i] + 1
           /\ \A j \in Workers \ {i} :
                 /\ pc'[j] = pc[j]
                 /\ res_count'[j] = res_count[j] /\ res_time'[j] = res_time[j]
           /\ UNCHANGED drvVars

\* The driver is reading the result slots, or has read them.
DriverReadsSlots == drv_pc \in {"aggregate", "returned", "appended"} \/ drv_err = "ZeroDivisionError"

\* C12: in all three drivers the slots of worker i are written by worker i
\* alone, as its last step, once if it ends normally and never otherwise, and
\* the driver reads the slots only when every worker has ended and been joined.
C12_SlotDiscipline ==
    /\ [](\A i \in Workers :
             /\ slot_writes[i] = (IF pc[i] = "done" THEN 1 ELSE 0)
             /\ (res_time[i] => pc[i] = "done"))
    /\ [](DriverReadsSlots => (joined = arena_num /\ \A i \in Workers : Terminated(i)))
    /\ [][SlotsWrittenByOwnerLast]_vars

\* run_like_mlperf reads the slots of two workers that both wrote them.
C12_Witness ==
    /\ variant = "mlperf"
    /\ arena_num >= 2
    /\ drv_pc = "aggregate"
    /\ \A i \in Workers : slot_writes[i] = 1 /\ res_count[i] >= 1

(***************************************************************************)
(* The arena partition: run_within_arenas from its entry (arena_num        *)
(* derived or given) through the spawn loop to the OMP_* settings of each  *)
(* arena_wrp, for every core count, arena size and arena_num argument.     *)
(***************************************************************************)

\* Every index a worker of a partition run can have.
PartIds == 0..MaxCores

\* The arena_num arguments tried: None, or a number up to one more than the cores.
ArenaNumArgs == {NoneArg} \cup {Given(n) : n \in 1..(MaxCores + 1)}

PartInit ==
    /\ variant = "arenas"
    /\ total_cores \in 1..MaxCores
    /\ arena_size \in 0..MaxArenaSize
    /\ arena_num_arg \in ArenaNumArgs
    /\ arena_num = 0
    /\ drv_pc = "entry"
    /\ drv_err = "none"
    /\ spawned = 0
    /\ joined = 0
    /\ ret = NoValue
    /\ results = <<>>
    /\ still_running = 1
    /\ barrier_count = 0
    /\ tasks = <<>>
    /\ tickets_put = 0
    /\ nones_put = 0
    /\ pc = <<>>
    /\ timing = <<>>
    /\ tot_count = <<>>
    /\ res_count = <<>>
    /\ res_time = <<>>
    /\ late_calls = <<>>
    /\ got_tickets = <<>>
    /\ got_none = <<>>
    /\ late_ticket = FALSE
    /\ omp = <<>>
    /\ thread_inits = <<>>
    /\ slot_writes = <<>>
    /\ completed = <<>>

\* Variant of DerivedArenaNum: the quotient rounded down.
DerivedArenaNumFloor == total_cores \div arena_size

\* arena_num = (multiprocessing.cpu_count() - 1) // arena_size + 1
DerivedArenaNum == (total_cores - 1) \div arena_size + 1

\* still_running, res_count, res_time, init_barrier, processes for n workers.
SetUp(n) ==
    /\ arena_num' = n
    /\ drv_pc' = "spawn"
    /\ pc' = [i \in 0..(n - 1) |-> "unborn"]
    /\ timing' = [i \in 0..(n - 1) |-> FALSE]
    /\ tot_count' = [i \in 0..(n - 1) |-> 0]
    /\ res_count' = [i \in 0..(n - 1) |-> 0]
    /\ res_time' = [i \in 0..(n - 1) |-> FALSE]
    /\ late_calls' = [i \in 0..(n - 1) |-> 0]
    /\ got_tickets' = [i \in 0..(n - 1) |-> 0]
    /\ got_none' = [i \in 0..(n - 1) |-> 0]
    /\ omp' = [i \in 0..(n - 1) |-> Unset]
    /\ thread_inits' = [i \in 0..(n - 1) |-> 0]
    /\ slot_writes' = [i \in 0..(n - 1) |-> 0]
    /\ completed' = [i \in 0..(n - 1) |-> 0]
    /\ UNCHANGED drv_err

\* The driver raises before anything is set up.
EntryRaise(e) ==
    /\ drv_pc' = "error"
    /\ drv_err' = e
    /\ UNCHANGED <<arena_num, pc, timing, tot_count, res_count, res_time, late_calls,
                   got_tickets, got_none, omp, thread_inits, slot_writes, completed>>

\* if arena_num is None: arena_num = ...; then the shared state is created.
\* The division raises ZeroDivisionError when arena_size is 0.
ArenasEntry ==
    /\ variant = "arenas"
    /\ drv_pc = "entry"
    /\ IF arena_num_arg.given
          THEN SetUp(arena_num_arg.value)
          ELSE IF arena_size = 0
                  THEN EntryRaise("ZeroDivisionError")
                  ELSE SetUp(DerivedArenaNum)
    /\ UNCHANGED <<variant, total_cores, arena_size, arena_num_arg, spawned, joined,
                   ret, results, syncVars, queueVars, late_ticket>>

PartNext ==
    \/ ArenasEntry
    \/ ArenasSpawn
    \/ \E i \in PartIds : WrpAffinity(i)

PartSpec == PartInit /\ [][PartNext]_vars

\* The cores of arena i and their number.
Places(i) == omp[i].places

PlaceCount(i) == Cardinality(Places(i))

\* Every worker of the run has set its OMP_* variables.
AllBound == drv_pc = "arrive" /\ \A i \in Workers : omp[i].bound

\* C13: for total_cores >= 1 and arena_size >= 1, arena_num derived or given,
\* the core ranges of the workers 0..arena_num-1 are pairwise disjoint, their
\* sizes sum to at most total_cores, and at most one is smaller than arena_size.
C13_PartitionRanges ==
    (arena_size >= 1 /\ AllBound) =>
        /\ \A i, j \in Workers : i # j => Places(i) \cap Places(j) = {}
        /\ SumTo([i \in Workers |-> PlaceCount(i)], arena_num) <= total_cores
        /\ Cardinality({i \in Workers : PlaceCount(i) < arena_size}) <= 1

\* ceil(a / b) for a >= 1, b >= 1.
Ceil(a, b) == CHOOSE k \in 0..a : k * b >= a /\ (k - 1) * b < a

\* C14: with arena_num not given and arena_size >= 1, run_within_arenas sets
\* arena_num to ceil(total_cores / arena_size) and its spawn loop starts
\* exactly the workers 0..arena_num-1.
C14_DerivedArenaNum ==
    (~arena_num_arg.given /\ arena_size >= 1 /\ drv_pc # "entry") =>
        /\ arena_num = Ceil(total_cores, arena_size)
        /\ drv_pc \in {"spawn", "arrive"}
        /\ spawned <= arena_num
        /\ \A i \in Workers : (pc[i] # "unborn") <=> (i < spawned)
        /\ (drv_pc = "arrive" => spawned = Ceil(total_cores, arena_size))

\* The spawn loop has ended for a core count that is no multiple of the arena size.
C14_Witness ==
    /\ ~arena_num_arg.given
    /\ arena_size >= 2
    /\ total_cores > arena_size
    /\ total_cores % arena_size # 0
    /\ drv_pc = "arrive"
    /\ spawned = arena_num

\* C15: with arena_size < 1 run_within_arenas ends with an error before any
\* worker is spawned, whether arena_num is given or not.
C15_BadArenaSizeFails ==
    arena_size < 1 => (spawned = 0 /\ drv_pc \in {"entry", "error"})

\* Worker i has taken an item from the queue.
HasDequeued(i) == got_tickets[i] + got_none[i] >= 1

\* C16: in run_like_mlperf a worker's start timestamp is not taken before its
\* first item has been dequeued, and its end timestamp (taken when the slots
\* are written) is not taken after waiting for the sentinel.
C16_ElapsedInterval ==
    variant = "mlperf" =>
        \A i \in Workers :
            /\ timing[i] => HasDequeued(i)
            /\ res_time[i] => got_none[i] = 0

\* A step that changes still_running is the driver's write of 0 after its sleep,
\* with every worker started (and, with processes, the barrier released).
FlagWrittenByDriverStop ==
    still_running' # still_running =>
        /\ still_running = 1
        /\ still_running' = 0
        /\ drv_pc = "sleep"
        /\ drv_pc' = "join"
        /\ pc' = pc
        /\ spawned = arena_num
        /\ (variant = "arenas" => BarrierOpen)

\* The driver has executed still_running = 0.
DriverPastStop == drv_pc \notin {"spawn", "arrive", "wait", "sleep"}

\* C17: in run_within_arenas and run_with_async_runner still_running changes
\* once per run, from 1 to 0, written by the driver after the sleep that
\* follows worker start-up (after the barrier release with processes); no
\* worker step writes it and it never goes back to 1.
C17_StopSignalWrittenOnce ==
    /\ [][FlagWrittenByDriverStop]_vars
    /\ [](variant \in {"arenas", "async"} =>
            (still_running = 0 <=> DriverPastStop))

\* The flag has been cleared in a process run whose workers made calls.
C17_Witness ==
    /\ variant = "arenas"
    /\ still_running = 0
    /\ \A i \in Workers : completed[i] >= 1

\* The place of a position in the step order of arena_wrp.
Rank(l) ==
    CASE l = "unborn" -> 0
      [] l = "affinity" -> 1
      [] l = "init_f" -> 2
      [] l = "wait" -> 3
      [] l = "start" -> 4
      [] l \in {"check", "body", "call"} -> 5
      [] l = "write" -> 6
      [] l = "done" -> 7
      [] l = "raised" -> 8

\* A worker step goes to the next step of the order, stays in the loop, or raises.
WrpStepsInOrder ==
    variant = "arenas" =>
        \A i \in Workers :
            pc'[i] # pc[i] =>
                \/ Rank(pc'[i]) = Rank(pc[i]) + 1
                \/ Rank(pc'[i]) = 5 /\ Rank(pc[i]) = 5
                \/ pc'[i] = "raised" /\ pc[i] \in {"init_f", "call"}

\* What a worker at each step has behind it.
WrpStepsDone ==
    variant = "arenas" =>
        \A i \in Workers :
            /\ Rank(pc[i]) >= 2 => omp[i] = Affinity(i)
            /\ Rank(pc[i]) \in 4..7 => BarrierOpen
            /\ Rank(pc[i]) \in 5..7 => timing[i]
            /\ (pc[i] = "call" \/ tot_count[i] > 0) =>
                   omp[i].bound /\ BarrierOpen /\ timing[i]
            /\ res_time[i] <=> pc[i] = "done"

\* C18: a worker process of run_within_arenas sets its affinity, then runs
\* init_f, then waits at the barrier, then takes the start timestamp and runs
\* the loop, then writes its slots and ends; it makes no action_f call before
\* the affinity is set and init_f has returned.
C18_WrpStepOrder == [][WrpStepsInOrder]_vars /\ []WrpStepsDone

\* A worker process has gone through every step, with a call in its loop.
C18_Witness ==
    /\ variant = "arenas"
    /\ \E i \in Workers : pc[i] = "done" /\ completed[i] >= 1 /\ omp[i].bound

\* C19: in run_with_async_runner every worker thread calls
\* runner.initialize_for_thread() once, before its first runner.infer call.
C19_ThreadInitOnce ==
    variant = "async" =>
        \A i \in Workers :
            /\ thread_inits[i] <= 1
            /\ pc[i] \notin {"unborn", "init"} => thread_inits[i] = 1
            /\ (pc[i] = "call" \/ tot_count[i] > 0) => thread_inits[i] = 1

\* A worker thread is inside its first runner.infer call.
C19_Witness ==
    /\ variant = "async"
    /\ \E i \in Workers : pc[i] = "call" /\ tot_count[i] = 1 /\ thread_inits[i] = 1

\* tot_count never decreases; after a worker has ended, its counter and its
\* slot stay as they are.
CountMonotoneAndFinal ==
    \A i \in Workers :
        /\ tot_count'[i] >= tot_count[i]
        /\ Terminated(i) => tot_count'[i] = tot_count[i] /\ res_count'[i] = res_count[i]

\* The slot of a worker that ended normally holds its completed calls.
SlotIsCompletedCalls ==
    \A i \in Workers :
        /\ pc[i] = "done" => res_count[i] = completed[i] /\ res_count[i] = tot_count[i]
        /\ pc[i] # "done" => res_count[i] = 0

\* C20: in every variant tot_count never decreases, the value a worker writes
\* to its res_count slot when it ends equals the number of calls it completed,
\* and the slot is not modified after the worker has ended.
C20_CallsCompleted == [][CountMonotoneAndFinal]_vars /\ []SlotIsCompletedCalls

\* A queue-pull run has returned with a worker that completed calls.
C20_Witness ==
    /\ variant = "mlperf"
    /\ drv_pc = "returned"
    /\ \E i \in Workers : pc[i] = "done" /\ res_count[i] >= 1 /\ res_count[i] = completed[i]

====
